---- MODULE Spec2Model ----
(***************************************************************************)
(* State-machine model of the gmailwrapper package: the OAuth credential   *)
(* state machine (auth.py), the HTTP client (client.py) and the resource   *)
(* handlers (resources/base.py, messages.py, drafts.py, threads.py).       *)
(*                                                                         *)
(* A credential is a record {present, token, refresh_token, expired}.      *)
(* token = 0 stands for token None; tokens are numbered in the order the   *)
(* authorization server grants them.  `expired` is the library's derived   *)
(* flag; time passing is the action Expire.                                *)
(***************************************************************************)
EXTENDS Naturals, Sequences, FiniteSets, TLC

\* ------------------------------------------------------------------ bounds
MaxTok == 3          \* tokens the authorization server grants in one run
MaxStubs == 2        \* stubs in a list response
MaxPools == 3        \* connection pools constructed in one run
MaxClosing == 1      \* close() calls suspended in aclose() at one time

\* ------------------------------------------------------------- credentials
None == [present |-> FALSE, token |-> 0, refresh_token |-> FALSE, expired |-> FALSE]

Cred(t, r, e) == [present |-> TRUE, token |-> t, refresh_token |-> r, expired |-> e]

\* Credentials.valid as the code reads it: a token is set and it has not expired.
valid(c) == c.present /\ c.token # 0 /\ ~c.expired

\* What token storage can hold when the program starts: no file, or a file
\* written by an earlier run (token 0 is a file without an access token).
StoredCreds ==
    {None, Cred(0, TRUE, FALSE)} \cup {Cred(1, r, e) : r \in BOOLEAN, e \in BOOLEAN}

\* The outcomes of the external collaborators during one get_credentials():
\* whether refresh() returns or throws, whether the consent flow returns or
\* throws, whether the token file can be written.
AuthEnvs == [refreshOk : BOOLEAN, flowOk : BOOLEAN, saveOk : BOOLEAN]

\* The collaborators are consulted only when the cached credential is not
\* valid; with a valid one their outcomes need not be told apart.
EnvsFor(c) ==
    IF valid(c) THEN {[refreshOk |-> TRUE, flowOk |-> TRUE, saveOk |-> TRUE]}
    ELSE AuthEnvs

\* What one get_credentials() call did: the exception it raised (or none),
\* the credential it returned, the cache and the token file it left, how often
\* it touched the token file to read it, the credentials it tried to write
\* there and whether that write failed, and the refresh and consent-flow
\* attempts it made.
AuthResult(err, ret, c, s, reads, saved, save_failed, refreshes, flows) ==
    [err |-> err, ret |-> ret, cache |-> c, store |-> s, reads |-> reads,
     saved |-> saved, save_failed |-> save_failed, refreshes |-> refreshes,
     flows |-> flows]

\* _save_token: best effort; a failure to open or write the file is logged
\* and the file is left as it was.  Result: <<token file, exception>>.
SaveTokenRaising(s, creds, saveOk) ==
    IF saveOk THEN <<creds, "none">> ELSE <<s, "OSError">>
save_token(s, creds, saveOk) == IF saveOk THEN <<creds, "none">> ELSE <<s, "none">>

\* _get_new_credentials: the secrets file must exist; the consent flow then
\* returns a fresh credential (the flow asks for offline access, so it
\* carries a refresh token) or throws.  Result: <<err, credential, flows>>.
NewCredentialsWithoutSecretsCheck(sec, env, tok) ==
    IF env.flowOk THEN <<"none", Cred(tok, TRUE, FALSE), 1>>
    ELSE <<"GmailCredentialsError", None, 1>>
get_new_credentials(sec, env, tok) ==
    IF ~sec THEN <<"GmailCredentialsError", None, 0>>
    ELSE IF env.flowOk THEN <<"none", Cred(tok, TRUE, FALSE), 1>>
    ELSE <<"GmailCredentialsError", None, 1>>

\* The tail of get_credentials: save the acquired credential, cache it,
\* return it.
Acquired(creds, c, s, env, reads, refreshes, flows) ==
    LET w == save_token(s, creds, env.saveOk)
    IN IF w[2] = "none"
       THEN AuthResult("none", creds, creds, w[1], reads, <<creds>>, ~env.saveOk,
                       refreshes, flows)
       ELSE AuthResult(w[2], None, c, w[1], reads, <<creds>>, ~env.saveOk,
                       refreshes, flows)

\* get_credentials, with c = self._credentials, s = the token file,
\* sec = whether the secrets file exists, tok = the next token granted.
GetCredentialsTrustingCache(c, s, sec, env, tok) ==
    IF c.present THEN AuthResult("none", c, c, s, 0, <<>>, FALSE, 0, 0)
    ELSE AuthResult("none", s, s, s, 1, <<>>, FALSE, 0, 0)
GetCredentialsAlwaysReloading(c, s, sec, env, tok) ==
    IF valid(s) THEN AuthResult("none", s, s, s, 2, <<>>, FALSE, 0, 0)
    ELSE AuthResult("none", c, c, s, 1, <<>>, FALSE, 0, 0)
GetCredentialsNotCachingRefreshed(c, s, sec, env, tok) ==
    IF valid(c) THEN AuthResult("none", c, c, s, 0, <<>>, FALSE, 0, 0)
    ELSE LET r == Cred(tok, s.refresh_token, FALSE)
         IN AuthResult("none", r, c, r, 2, <<r>>, FALSE, 1, 0)
GetCredentialsFlowOnRefreshFailure(c, s, sec, env, tok) ==
    IF valid(c) THEN AuthResult("none", c, c, s, 0, <<>>, FALSE, 0, 0)
    ELSE LET r == Cred(tok, TRUE, FALSE)
         IN AuthResult("none", r, r, r, 2, <<r>>, FALSE, 1, 1)
get_credentials(c, s, sec, env, tok) ==
    IF c.present /\ valid(c)
    THEN AuthResult("none", c, c, s, 0, <<>>, FALSE, 0, 0)
    ELSE
      LET creds == IF s.present THEN s ELSE None
          reads == IF s.present THEN 2 ELSE 1
      IN IF ~creds.present \/ ~valid(creds)
         THEN IF creds.present /\ creds.expired /\ creds.refresh_token
              THEN IF env.refreshOk
                   THEN Acquired([creds EXCEPT !.token = tok, !.expired = FALSE],
                                 c, s, env, reads, 1, 0)
                   ELSE AuthResult("GmailTokenError", None, c, s, reads, <<>>,
                                   FALSE, 1, 0)
              ELSE LET n == get_new_credentials(sec, env, tok)
                   IN IF n[1] = "none"
                      THEN Acquired(n[2], c, s, env, reads, 0, n[3])
                      ELSE AuthResult(n[1], None, c, s, reads, <<>>, FALSE, 0, n[3])
         ELSE AuthResult("none", creds, creds, s, reads, <<>>, FALSE, 0, 0)

\* Whether a call consumed the token offered to it.
Minted(r) == IF r.refreshes + r.flows > 0 /\ r.err = "none" THEN 1 ELSE 0

\* ----------------------------------------------------------------- config
BASE_URL == "https://gmail.googleapis.com/gmail/v1/users/me"
MESSAGES_ENDPOINT == <<"messages">>
DRAFTS_ENDPOINT == <<"drafts">>
THREADS_ENDPOINT == <<"threads">>
SEND_ENDPOINT == <<"messages", "send">>
TRASH_SUFFIX == "trash"
UNTRASH_SUFFIX == "untrash"
FULL_FORMAT == "full"

\* The handler classes, and BaseGmailResource itself used directly.
Kinds == {"messages", "drafts", "threads"}
Classes == Kinds \cup {"base"}
Ids == {"a", "b"}

\* ------------------------------------------------------------ HTTP client
\* A header value; n carries the bearer token of an Authorization value.
HVal(s, n) == [s |-> s, n |-> n]

\* get_auth_headers applied to the credential get_credentials returned.
get_auth_headers(cred) ==
    ("Authorization" :> HVal("Bearer", cred.token))
      @@ ("Content-Type" :> HVal("application/json", 0))

\* dict.update: b's entries over a's.
HeadersExtraDoesNotOverride(a, b) ==
    [k \in DOMAIN a \cup DOMAIN b |-> IF k \in DOMAIN a THEN a[k] ELSE b[k]]
update(a, b) ==
    [k \in DOMAIN a \cup DOMAIN b |-> IF k \in DOMAIN b THEN b[k] ELSE a[k]]

\* The caller's extra headers; the empty mapping also stands for None.
\* The callers of the client pass any of these, the callers of the handlers
\* pass none.
NoHeaders == <<>>
ExtraHeaders ==
    {NoHeaders,
     "X-Extra" :> HVal("x", 0),
     "Authorization" :> HVal("Bearer", 0)}
HandlerHeaders == {NoHeaders}

Methods == {"GET", "POST", "PUT", "DELETE", "PATCH"}
SupportedMethods == {"GET", "POST", "PUT", "DELETE"}

NoPool == [present |-> FALSE, id |-> 0, hdr_tok |-> 0, closed |-> FALSE]
NoReq == [present |-> FALSE, method |-> "", base |-> "", path |-> <<>>,
          params |-> "", headers |-> NoHeaders, pool |-> 0]
Req(method, path, params, headers, pid) ==
    [present |-> TRUE, method |-> method, base |-> BASE_URL, path |-> path,
     params |-> params, headers |-> headers, pool |-> pid]

\* What the pool sends for a request: its default headers (the auth headers
\* of the moment it was built) with the request's own headers over them.
DefaultHeaders(p) == get_auth_headers([token |-> p.hdr_tok])
MergeHeadersPoolDefaultsWin(p, headers) == update(headers, DefaultHeaders(p))
merge_headers(p, headers) == update(DefaultHeaders(p), headers)

\* An exception as the caller sees it.  cause is the type of the exception a
\* GmailResourceError was made from.
Exc(type, status_code, response, cause) ==
    [type |-> type, status_code |-> status_code, response |-> response, cause |-> cause]
NoExc == Exc("none", 0, "", "none")

\* One entry of the authenticator's log: the state get_credentials() found,
\* the collaborators' outcomes and what it did.
AuthEntry(c, s, sec, env, r) ==
    [cache |-> c, store |-> s, secrets |-> sec, res |-> r,
     refresh_raised |-> r.refreshes > 0 /\ ~env.refreshOk]

\* _get_client: the pool is built on first use, with the auth headers of that
\* moment as its default headers.  Result: the auth call made (if any), its
\* error, and the pool.
BuiltClient(p, pid, r) ==
    [called |-> TRUE, r |-> r,
     pool |-> IF r.err = "none"
              THEN [present |-> TRUE, id |-> pid, hdr_tok |-> r.ret.token,
                    closed |-> FALSE]
              ELSE p]
get_client(p, c, s, sec, env, tok, pid) ==
    IF ~p.present
    THEN BuiltClient(p, pid, get_credentials(c, s, sec, env, tok))
    ELSE [called |-> FALSE,
          r |-> AuthResult("none", c, c, s, 0, <<>>, FALSE, 0, 0), pool |-> p]

\* What request() does up to its first suspension: obtain the pool, obtain
\* fresh auth headers, merge the caller's headers over them, build the URL and
\* dispatch on the method.  p = self._client, e1/e2 = the collaborators'
\* outcomes for the two get_credentials() calls, tok = the next token granted,
\* pid = the next pool.  Result: the exception raised (or none), the request
\* handed to the pool (or NoReq), and the authenticator's and pool's new state.
StartResult(err, req, c, s, p, auths, minted) ==
    [err |-> err, req |-> req, cache |-> c, store |-> s, pool |-> p,
     auths |-> auths, minted |-> minted]

\* The tail of request(): merge the headers and dispatch on the method.
\* g_pool = the pool _get_client returned, c1/s1 = the authenticator's state
\* before the second get_credentials() call, r2 = that call, a1/m1 = the
\* log and the tokens used so far.
dispatch(method, path, params, hdrs, g_pool, c1, s1, sec, e2, r2, a1, m1) ==
    IF r2.err # "none"
    THEN StartResult(Exc(r2.err, 0, "", "none"), NoReq, r2.cache, r2.store, g_pool,
                     Append(a1, AuthEntry(c1, s1, sec, e2, r2)), m1 + Minted(r2))
    ELSE IF method \in SupportedMethods
    THEN IF g_pool.closed
         THEN StartResult(Exc("RuntimeError", 0, "", "none"), NoReq, r2.cache,
                          r2.store, g_pool,
                          Append(a1, AuthEntry(c1, s1, sec, e2, r2)), m1 + Minted(r2))
         ELSE StartResult(NoExc,
                          Req(method, path, params,
                              merge_headers(g_pool,
                                            IF DOMAIN hdrs # {}
                                            THEN update(get_auth_headers(r2.ret), hdrs)
                                            ELSE get_auth_headers(r2.ret)),
                              g_pool.id),
                          r2.cache, r2.store, g_pool,
                          Append(a1, AuthEntry(c1, s1, sec, e2, r2)), m1 + Minted(r2))
    ELSE StartResult(Exc("ValueError", 0, "", "none"), NoReq, r2.cache, r2.store,
                     g_pool, Append(a1, AuthEntry(c1, s1, sec, e2, r2)),
                     m1 + Minted(r2))

\* request() after _get_client: g = what _get_client did, a1/m1 = its log
\* entry and the token it used.
after_client(method, path, params, hdrs, sec, e2, tok, g, a1, m1) ==
    IF g.r.err # "none"
    THEN StartResult(Exc(g.r.err, 0, "", "none"), NoReq, g.r.cache, g.r.store,
                     g.pool, a1, m1)
    ELSE dispatch(method, path, params, hdrs, g.pool, g.r.cache, g.r.store, sec, e2,
                  get_credentials(g.r.cache, g.r.store, sec, e2, tok + m1), a1, m1)

with_client(method, path, params, hdrs, c, s, sec, e1, e2, tok, g) ==
    after_client(method, path, params, hdrs, sec, e2, tok, g,
                 IF g.called THEN <<AuthEntry(c, s, sec, e1, g.r)>> ELSE <<>>,
                 IF g.called THEN Minted(g.r) ELSE 0)

request(method, path, params, hdrs, p, c, s, sec, e1, e2, tok, pid) ==
    with_client(method, path, params, hdrs, c, s, sec, e1, e2, tok,
                get_client(p, c, s, sec, e1, tok, pid))

\* What the network hands back for a request: no response at all (a transport
\* failure), or a response with a status, a body text, and the JSON document
\* the text decodes to (json_ok = FALSE: the text is not JSON).  A decoded
\* list envelope has at most one list key, holding stubs.
Statuses == {200, 302, 404}
BodyTexts == {"", "text"}
StubLists == UNION {[1..n -> Ids] : n \in 0..MaxStubs}
Resp(transport, status, text, json_ok, key, items) ==
    [transport |-> transport, status |-> status, text |-> text,
     json_ok |-> json_ok, key |-> key, items |-> items]
Failures == {Resp(TRUE, 0, "", FALSE, "none", <<>>)}
Documents ==
    {Resp(FALSE, st, t, FALSE, "none", <<>>) : st \in Statuses, t \in BodyTexts}
      \cup {Resp(FALSE, 200, "text", TRUE, "none", <<>>)}
Envelopes(collection) ==
    {Resp(FALSE, 200, "text", TRUE, collection, l) : l \in StubLists}

\* The server answers the GET of a collection with that collection's list
\* envelope or with a document that lacks the list key, and any other request
\* with a document.
ResponsesTo(req) ==
    Failures \cup Documents
      \cup (IF req.method = "GET" /\ Len(req.path) = 1
           THEN Envelopes(req.path[1]) ELSE {})
NoResp == [transport |-> FALSE, status |-> 0, text |-> "", json_ok |-> FALSE,
           key |-> "none", items |-> <<>>]

\* Response.is_success, which raise_for_status tests.
is_success(status) == status >= 200 /\ status <= 299

\* The decoded document, tagged with the path of the request it answers.
Json(resp, req) == [key |-> resp.key, items |-> resp.items, of |-> req.path]
NoJson == [key |-> "none", items |-> <<>>, of |-> <<>>]

\* What request() does with what the network hands back: <<exception, json>>.
HandleResponseTransportAsAPIError(resp, req) ==
    IF resp.transport \/ ~is_success(resp.status)
    THEN <<Exc("GmailAPIError", resp.status, resp.text, "none"), NoJson>>
    ELSE <<NoExc, Json(resp, req)>>
HandleResponseLosingBody(resp, req) ==
    IF resp.transport THEN <<Exc("GmailRequestError", 0, "", "none"), NoJson>>
    ELSE IF ~is_success(resp.status)
    THEN <<Exc("GmailAPIError", resp.status, "", "none"), NoJson>>
    ELSE <<NoExc, Json(resp, req)>>
handle_response(resp, req) ==
    IF resp.transport
    THEN <<Exc("GmailRequestError", 0, "", "none"), NoJson>>
    ELSE IF ~is_success(resp.status)
    THEN <<Exc("GmailAPIError", resp.status, resp.text, "none"), NoJson>>
    ELSE IF ~resp.json_ok
    THEN <<Exc("JSONDecodeError", 0, "", "none"), NoJson>>
    ELSE <<NoExc, Json(resp, req)>>

\* ------------------------------------------------------ resource handlers
\* What a handler method asks of the client: the verb method, the endpoint
\* path and the query parameters.
HReq(method, path, params) == [method |-> method, path |-> path, params |-> params]

\* BaseGmailResource: each method builds its endpoint from its arguments.
base_get_all(endpoint) == HReq("GET", endpoint, "")
base_get_by_id(endpoint, resource_id, params) == HReq("GET", endpoint \o <<resource_id>>, params)
base_create(endpoint) == HReq("POST", endpoint, "")
base_update(endpoint, resource_id) == HReq("PUT", endpoint \o <<resource_id>>, "")
base_delete(endpoint, resource_id) ==
    HReq("DELETE", endpoint \o <<resource_id, TRASH_SUFFIX>>, "")
base_undelete(endpoint, resource_id) ==
    HReq("POST", endpoint \o <<resource_id, UNTRASH_SUFFIX>>, "")

Endpoint(kind) ==
    CASE kind = "messages" -> MESSAGES_ENDPOINT
      [] kind = "drafts" -> DRAFTS_ENDPOINT
      [] kind = "threads" -> THREADS_ENDPOINT

\* The list key each get_all passes.
ListKey(kind) == kind

\* get_all_with_details calls self.get_all(endpoint, list_key, params=...,
\* headers=...).  On GmailMessages, GmailDrafts and GmailThreads self.get_all
\* is the class's own get_all(params, headers, details): the two positional
\* arguments land on params and headers, which are passed by keyword as well,
\* and the call raises TypeError before anything is awaited.  On a plain
\* BaseGmailResource it is the base get_all.
self_get_all_is_base(kind) == kind = "base"

\* The methods each handler class defines with the endpoint built in ...
Operations(kind) ==
    CASE kind = "messages" -> {"get_all", "get_by_id", "send", "delete", "update"}
      [] kind = "drafts" -> {"get_all", "get_by_id", "create", "update", "delete"}
      [] kind = "threads" -> {"get_all", "get_by_id", "delete", "undelete"}
      [] kind = "base" -> {}

\* ... and those it inherits unchanged from BaseGmailResource, which take the
\* endpoint as their first argument.
InheritedOperations(kind) ==
    CASE kind = "messages" -> {"base.create", "base.undelete"}
      [] kind = "drafts" -> {"base.undelete"}
      [] kind = "threads" -> {"base.create", "base.update"}
      [] kind = "base" -> {"base.get_all_with_details"}

\* The methods a handler class leaves to BaseGmailResource, called the way
\* its own methods are called: create(data), update(id, data), undelete(id).
ShortOperations(kind) ==
    CASE kind = "messages" -> {"create", "undelete"}
      [] kind = "drafts" -> {"undelete"}
      [] kind = "threads" -> {"create", "update"}
      [] kind = "base" -> {}

IdOperations == {"get_by_id", "delete", "update", "undelete", "base.update", "base.undelete"}

\* The parameters without a default, self aside, of BaseGmailResource's
\* methods and of the handler classes' own methods.
BaseRequired(m) ==
    CASE m = "get_all_with_details" -> 3
      [] m = "update" -> 3
      [] m \in {"create", "delete", "undelete", "get_by_id", "get_all"} -> 2
OwnRequired(m) ==
    CASE m = "get_all" -> 0
      [] m = "update" -> 2
      [] m \in {"get_by_id", "send", "create", "delete", "undelete"} -> 1

\* The method a call resolves to on the class and the arguments the caller
\* supplies: an operation named base.m is the inherited method called with
\* the endpoint first, any other is called with the handler's own shape.
MethodName(op) ==
    CASE op = "base.create" -> "create"
      [] op = "base.update" -> "update"
      [] op = "base.undelete" -> "undelete"
      [] op = "base.get_all_with_details" -> "get_all_with_details"
      [] OTHER -> op
Supplied(op) == IF MethodName(op) = op THEN OwnRequired(op) ELSE BaseRequired(MethodName(op))
Required(kind, op) ==
    IF op \in Operations(kind) THEN OwnRequired(op) ELSE BaseRequired(MethodName(op))

\* Python binds the arguments when the method is called: a required
\* parameter left without an argument raises TypeError there.
binds(kind, op) == Supplied(op) >= Required(kind, op)

\* The request a handler method makes; resource_id and endpoint are the
\* caller's arguments where the method takes them.
handler_request(kind, op, resource_id, endpoint) ==
    CASE op = "get_all" -> base_get_all(Endpoint(kind))
      [] op = "get_by_id" -> base_get_by_id(Endpoint(kind), resource_id, FULL_FORMAT)
      [] op = "send" -> base_create(SEND_ENDPOINT)
      [] op = "create" -> base_create(Endpoint(kind))
      [] op = "update" -> base_update(Endpoint(kind), resource_id)
      [] op = "delete" -> base_delete(Endpoint(kind), resource_id)
      [] op = "undelete" -> base_undelete(Endpoint(kind), resource_id)
      [] op = "base.create" -> base_create(endpoint)
      [] op = "base.update" -> base_update(endpoint, resource_id)
      [] op = "base.undelete" -> base_undelete(endpoint, resource_id)
      [] op = "base.get_all_with_details" -> base_get_all(endpoint)

\* except Exception as e: raise GmailResourceError(f"...: {e}")
wrap(e) == IF e.type = "none" THEN e ELSE Exc("GmailResourceError", 0, "", e.type)

\* response.get(list_key, [])
unwrap(json, list_key) == IF json.key = list_key THEN json.items ELSE <<>>

\* ------------------------------------- create_message and parse_message
\* A message text is a sequence of characters; the documents built from it
\* are sequences of octets.
MaxLen == 3

\* A letter, the two characters that can land on the sextets 62 and 63, the
\* line feed, the carriage return and a letter outside ASCII (e acute).
Chars == {"a", ">", "?", "LF", "CR", "E9"}
Texts == UNION {[1..n -> Chars] : n \in 0..MaxLen}

LF == 10
CR == 13
PAD == 61

\* str.encode("utf-8") and bytes.decode, character by character.
utf8(c) ==
    CASE c = "a" -> <<97>>
      [] c = ">" -> <<62>>
      [] c = "?" -> <<63>>
      [] c = "LF" -> <<LF>>
      [] c = "CR" -> <<CR>>
      [] c = "E9" -> <<195, 169>>

RECURSIVE encode_utf8(_)
encode_utf8(t) == IF t = <<>> THEN <<>> ELSE utf8(Head(t)) \o encode_utf8(Tail(t))

RECURSIVE decode_utf8(_)
decode_utf8(b) ==
    IF b = <<>> THEN <<>>
    ELSE IF Len(b) >= 2 /\ SubSeq(b, 1, 2) = utf8("E9")
    THEN <<"E9">> \o decode_utf8(SubSeq(b, 3, Len(b)))
    ELSE <<CHOOSE c \in Chars : utf8(c) = <<Head(b)>> >> \o decode_utf8(Tail(b))

\* MIMEText tries us-ascii first and falls back to utf-8.
is_ascii(t) == \A i \in 1..Len(t) : t[i] # "E9"

\* The base64 alphabets: the sextet s as a character, and a character of the
\* standard alphabet as a sextet (-1: not in the alphabet).
B64Char(s, urlsafe) ==
    IF s < 26 THEN 65 + s
    ELSE IF s < 52 THEN 97 + (s - 26)
    ELSE IF s < 62 THEN 48 + (s - 52)
    ELSE IF s = 62 THEN (IF urlsafe THEN 45 ELSE 43)
    ELSE (IF urlsafe THEN 95 ELSE 47)

B64Value(o) ==
    IF o >= 65 /\ o <= 90 THEN o - 65
    ELSE IF o >= 97 /\ o <= 122 THEN o - 71
    ELSE IF o >= 48 /\ o <= 57 THEN o + 4
    ELSE IF o = 43 THEN 62
    ELSE IF o = 47 THEN 63
    ELSE 0 - 1

\* base64.b64encode / base64.urlsafe_b64encode: three octets make four
\* characters, the last group is padded.
RECURSIVE b64encode(_, _)
b64encode(b, urlsafe) ==
    IF b = <<>> THEN <<>>
    ELSE IF Len(b) = 1
    THEN <<B64Char(b[1] \div 4, urlsafe), B64Char((b[1] % 4) * 16, urlsafe), PAD, PAD>>
    ELSE IF Len(b) = 2
    THEN <<B64Char(b[1] \div 4, urlsafe),
           B64Char((b[1] % 4) * 16 + b[2] \div 16, urlsafe),
           B64Char((b[2] % 16) * 4, urlsafe), PAD>>
    ELSE <<B64Char(b[1] \div 4, urlsafe),
           B64Char((b[1] % 4) * 16 + b[2] \div 16, urlsafe),
           B64Char((b[2] % 16) * 4 + b[3] \div 64, urlsafe),
           B64Char(b[3] % 64, urlsafe)>> \o b64encode(SubSeq(b, 4, Len(b)), urlsafe)

\* base64.b64decode: the characters outside the standard alphabet are
\* dropped, four sextets make three octets, and a padded last group makes
\* one or two.
RECURSIVE sextets(_)
sextets(s) ==
    IF s = <<>> THEN <<>>
    ELSE IF B64Value(Head(s)) < 0 THEN sextets(Tail(s))
    ELSE <<B64Value(Head(s))>> \o sextets(Tail(s))

RECURSIVE octets(_)
octets(v) ==
    IF Len(v) < 2 THEN <<>>
    ELSE IF Len(v) = 2 THEN <<v[1] * 4 + v[2] \div 16>>
    ELSE IF Len(v) = 3
    THEN <<v[1] * 4 + v[2] \div 16, (v[2] % 16) * 16 + v[3] \div 4>>
    ELSE <<v[1] * 4 + v[2] \div 16, (v[2] % 16) * 16 + v[3] \div 4,
           (v[3] % 4) * 64 + v[4]>> \o octets(SubSeq(v, 5, Len(v)))

b64decode(s) == octets(sextets(s))

\* raw_content.replace("_", "/").replace("-", "+"), which is also the
\* translation urlsafe_b64decode applies before decoding.
to_standard(s) ==
    [i \in 1..Len(s) |-> IF s[i] = 95 THEN 47 ELSE IF s[i] = 45 THEN 43 ELSE s[i]]
urlsafe_b64decode(s) == b64decode(to_standard(s))

\* The lines of a document's headers and its part delimiters, one octet
\* each: none of them depends on the message text, and the boundary is
\* chosen so that no line of a part equals it.
HeaderLines ==
    {"Content-Type: multipart/alternative", "MIME-Version: 1.0", "to", "from",
     "subject", "Content-Type: text/plain; charset=us-ascii",
     "Content-Type: text/plain; charset=utf-8",
     "Content-Type: text/html; charset=us-ascii",
     "Content-Type: text/html; charset=utf-8",
     "Content-Transfer-Encoding: 7bit", "Content-Transfer-Encoding: base64",
     "--boundary", "--boundary--"}
Line(h) ==
    CASE h = "Content-Type: multipart/alternative" -> <<1>>
      [] h = "MIME-Version: 1.0" -> <<2>>
      [] h = "to" -> <<3>>
      [] h = "from" -> <<4>>
      [] h = "subject" -> <<5>>
      [] h = "Content-Type: text/plain; charset=us-ascii" -> <<6>>
      [] h = "Content-Type: text/plain; charset=utf-8" -> <<7>>
      [] h = "Content-Type: text/html; charset=us-ascii" -> <<8>>
      [] h = "Content-Type: text/html; charset=utf-8" -> <<9>>
      [] h = "Content-Transfer-Encoding: 7bit" -> <<11>>
      [] h = "Content-Transfer-Encoding: base64" -> <<12>>
      [] h = "--boundary" -> <<14>>
      [] h = "--boundary--" -> <<15>>
      [] OTHER -> <<>>
ContentType(subtype, charset) ==
    CASE subtype = "plain" /\ charset = "us-ascii" -> "Content-Type: text/plain; charset=us-ascii"
      [] subtype = "plain" /\ charset = "utf-8" -> "Content-Type: text/plain; charset=utf-8"
      [] subtype = "html" /\ charset = "us-ascii" -> "Content-Type: text/html; charset=us-ascii"
      [] subtype = "html" /\ charset = "utf-8" -> "Content-Type: text/html; charset=utf-8"

\* MIMEText(text, subtype): an ASCII text is carried as it is (7bit), any
\* other as the base64 of its utf-8 octets, ended by a line feed.
Part(subtype, charset, cte, payload) ==
    [subtype |-> subtype, charset |-> charset, cte |-> cte, payload |-> payload]
MIMEText(text, subtype) ==
    IF is_ascii(text)
    THEN Part(subtype, "us-ascii", "7bit", encode_utf8(text))
    ELSE Part(subtype, "utf-8", "base64", b64encode(encode_utf8(text), FALSE) \o <<LF>>)

\* The generator writes a text payload line by line: each of \r\n, \r and
\* \n ends a line, and every line but the last is written with \n.
RECURSIVE write_lines(_)
write_lines(p) ==
    IF p = <<>> THEN <<>>
    ELSE IF Head(p) = CR
    THEN <<LF>> \o write_lines(IF Len(p) >= 2 /\ p[2] = LF THEN SubSeq(p, 3, Len(p))
                                ELSE Tail(p))
    ELSE <<Head(p)>> \o write_lines(Tail(p))

RECURSIVE write_headers(_)
write_headers(hs) ==
    IF hs = <<>> THEN <<LF>> ELSE Line(Head(hs)) \o <<LF>> \o write_headers(Tail(hs))

write_part(part) ==
    write_headers(<<ContentType(part.subtype, part.charset), "MIME-Version: 1.0",
                    IF part.cte = "7bit" THEN "Content-Transfer-Encoding: 7bit"
                    ELSE "Content-Transfer-Encoding: base64">>)
      \o write_lines(part.payload)

RECURSIVE write_parts(_)
write_parts(ps) ==
    IF Len(ps) = 1 THEN write_part(ps[1])
    ELSE write_part(Head(ps)) \o <<LF>> \o Line("--boundary") \o <<LF>>
           \o write_parts(Tail(ps))

\* message.as_bytes() of the multipart/alternative document.
as_bytes(parts) ==
    write_headers(<<"Content-Type: multipart/alternative", "MIME-Version: 1.0",
                    "to", "from", "subject">>)
      \o Line("--boundary") \o <<LF>> \o write_parts(parts)
      \o <<LF>> \o Line("--boundary--") \o <<LF>>

\* message_html as the caller passes it: left out (None), or a text, which
\* may be empty.  "if message_html:" is false for both None and "".
HtmlText == <<"a">>
Html(given, text) == [given |-> given, text |-> text]
HtmlInputs == {Html(FALSE, <<>>), Html(TRUE, <<>>), Html(TRUE, HtmlText)}
truth(message_html) == message_html.given /\ message_html.text # <<>>

\* create_message(sender, to, subject, message_text, message_html): the raw
\* field.
create_message(message_text, message_html) ==
    b64encode(as_bytes(IF truth(message_html)
                       THEN <<MIMEText(message_text, "plain"),
                              MIMEText(message_html.text, "html")>>
                       ELSE <<MIMEText(message_text, "plain")>>),
              TRUE)

\* The parser reads the document line by line.
RECURSIVE split_lines(_, _)
split_lines(o, cur) ==
    IF o = <<>> THEN <<cur>>
    ELSE IF Head(o) = LF THEN <<cur>> \o split_lines(Tail(o), <<>>)
    ELSE split_lines(Tail(o), Append(cur, Head(o)))

RECURSIVE join_lines(_)
join_lines(ls) ==
    IF ls = <<>> THEN <<>>
    ELSE IF Len(ls) = 1 THEN ls[1]
    ELSE Head(ls) \o <<LF>> \o join_lines(Tail(ls))

\* The first empty line ends the headers.
HeadersEnd(ls) == CHOOSE k \in 1..Len(ls) : ls[k] = <<>> /\ \A j \in 1..(k - 1) : ls[j] # <<>>
HeaderOf(l) == CHOOSE h \in HeaderLines : Line(h) = l
Has(ls, k, h) == \E j \in 1..(k - 1) : HeaderOf(ls[j]) = h

parse_part(ls) ==
    Part(IF \E c \in {"us-ascii", "utf-8"} : Has(ls, HeadersEnd(ls), ContentType("plain", c))
         THEN "plain" ELSE "html",
         IF \E t \in {"plain", "html"} : Has(ls, HeadersEnd(ls), ContentType(t, "utf-8"))
         THEN "utf-8" ELSE "us-ascii",
         IF Has(ls, HeadersEnd(ls), "Content-Transfer-Encoding: base64")
         THEN "base64" ELSE "7bit",
         join_lines(SubSeq(ls, HeadersEnd(ls) + 1, Len(ls))))

\* The parts lie between the delimiter lines; the line break before a
\* delimiter belongs to the delimiter.
NextDelimiter(ls, i) ==
    CHOOSE j \in (i + 1)..Len(ls) :
      /\ ls[j] \in {Line("--boundary"), Line("--boundary--")}
      /\ \A k \in (i + 1)..(j - 1) : ls[k] \notin {Line("--boundary"), Line("--boundary--")}

RECURSIVE parse_parts(_, _)
parse_parts(ls, i) ==
    <<parse_part(SubSeq(ls, i + 1, NextDelimiter(ls, i) - 1))>>
      \o (IF ls[NextDelimiter(ls, i)] = Line("--boundary--") THEN <<>>
          ELSE parse_parts(ls, NextDelimiter(ls, i)))

message_from_string(ls) == parse_parts(ls, HeadersEnd(ls) + 1)

\* parse_message(raw_content): the parts of the parsed message, or the
\* error of .decode("ASCII").
parse_message(raw_content) ==
    IF \E i \in 1..Len(urlsafe_b64decode(to_standard(raw_content))) :
          urlsafe_b64decode(to_standard(raw_content))[i] >= 128
    THEN [err |-> "UnicodeDecodeError", parts |-> <<>>]
    ELSE [err |-> "none",
          parts |-> message_from_string(
                      split_lines(urlsafe_b64decode(to_standard(raw_content)), <<>>))]

\* The content of a part as text: the payload decoded by the part's
\* transfer encoding and character set.
get_content(part) ==
    IF part.cte = "base64" THEN decode_utf8(b64decode(part.payload))
    ELSE decode_utf8(part.payload)

NoMime == [pc |-> "none", text |-> <<>>, html |-> Html(FALSE, <<>>), raw |-> <<>>,
           msg |-> [err |-> "none", parts |-> <<>>]]

\* ------------------------------------- the earlier single-class caller
\* gmail_wrapper.api.GmailAPICaller keeps the endpoint of its next request in
\* self._endpoint and the key it unwraps lists with in self._list_key.
\* _endpoint is a path, or the function delete_message assigns to it.
Ep(path) == [fn |-> FALSE, path |-> path]

\* f"{self._endpoint}": a function is formatted as its repr.
fmt(ep) == IF ep.fn THEN <<"<function>">> ELSE ep.path

\* _flip_endpoint(word), and the test every caller of it makes first:
\* "word" in self._endpoint, for a path (on a function the test raises
\* TypeError: see legacy_call).
flip_endpoint(st, word) == [st EXCEPT !.endpoint = Ep(<<word>>), !.list_key = word]
ensure(st, word) ==
    IF \E i \in 1..Len(st.endpoint.path) : st.endpoint.path[i] = word
    THEN st
    ELSE flip_endpoint(st, word)

\* The typed operations, which set the endpoint first, and the generic ones
\* they call, which are public as well.
DraftOps == {"get_drafts", "get_draft", "create_draft", "delete_draft", "update_draft"}
MessageOps == {"get_messages", "get_message", "update_message", "send_message",
               "delete_message"}
GenericOps == {"get", "get_all", "create", "delete", "undelete", "update"}
NoIdOps == {"get_drafts", "create_draft", "get_messages", "send_message", "get_all", "create"}

\* The fields after the part of a typed operation that precedes its call
\* of the generic one.
prepare(st, op, rid) ==
    CASE op = "create_draft" -> [ensure(st, "drafts") EXCEPT !.endpoint = Ep(<<"drafts">>)]
      [] op \in DraftOps \ {"create_draft"} -> ensure(st, "drafts")
      [] op = "send_message" -> [st EXCEPT !.endpoint = Ep(<<"messages", "send">>)]
      [] op = "delete_message" -> [st EXCEPT !.endpoint = [fn |-> TRUE, path |-> <<>>]]
      [] op = "get_message" ->
           [ensure(st, "messages") EXCEPT !.endpoint = Ep(<<"messages", rid>>)]
      [] op \in {"get_messages", "update_message"} -> ensure(st, "messages")
      [] OTHER -> st

\* The request of the generic operation: method and path.
generic(ep, op, rid) ==
    CASE op \in {"get_all", "get_drafts", "get_messages"} -> <<"GET", fmt(ep)>>
      [] op \in {"get", "get_draft", "get_message"} -> <<"GET", fmt(ep) \o <<rid>> >>
      [] op \in {"create", "create_draft", "send_message"} -> <<"POST", fmt(ep)>>
      [] op \in {"delete", "delete_draft", "delete_message"} ->
           <<"DELETE", fmt(ep) \o <<rid, "trash">> >>
      [] op = "undelete" -> <<"POST", fmt(ep) \o <<rid, "untrash">> >>
      [] op \in {"update", "update_draft", "update_message"} -> <<"PUT", fmt(ep) \o <<rid>> >>

\* One public operation run to its end on the fields st: the fields it
\* leaves and the request it made.  The list operations are called with
\* details left at its default, so they make the one list request.  An operation that tests
\* "word" in self._endpoint while _endpoint is a function raises TypeError
\* before any assignment.
LegacyRun(st, op, rid, err, req) ==
    [endpoint |-> st.endpoint, list_key |-> st.list_key, op |-> op, rid |-> rid,
     err |-> err, method |-> req[1], path |-> req[2]]
legacy_call(st, op, rid) ==
    IF st.endpoint.fn /\ op \in (DraftOps \cup MessageOps) \ {"send_message", "delete_message"}
    THEN LegacyRun(st, op, rid, "TypeError", <<"", <<>> >>)
    ELSE LegacyRun(prepare(st, op, rid), op, rid, "none",
                   generic(prepare(st, op, rid).endpoint, op, rid))

\* __init__: both fields start at threads.
NoLegacy == LegacyRun([endpoint |-> Ep(<<"threads">>), list_key |-> "threads"],
                      "", "", "none", <<"", <<>> >>)

\* ------------------------------------------------------------------ state
VARIABLES
    cache,      \* GmailAuthenticator._credentials
    store,      \* the token file (None: no file)
    secrets,    \* whether the secrets file exists
    nextTok,    \* the next token the authorization server grants
    pool,       \* GmailHTTPClient._client
    nextPool,   \* the next pool constructed
    closePc,    \* close(): the calls suspended in aclose(), and what the
                \* latest call to return did
    live,       \* the pools constructed whose aclose() was never called
    used,       \* the pools requests were handed to since the latest close() call
    authLog,    \* the get_credentials() calls of the caller's latest synchronous step
    call,       \* the operation the caller started last
    pc,         \* where that operation is: "idle", "await", "gather"
    net,        \* the operation's own request in flight
    tasks,      \* the detail tasks of a get_all_with_details
    sent,       \* the requests the operation handed to the pool, in order
    outcome,    \* what the operation gave its caller
    mime,       \* a message text on its way through create_message and parse_message
    legacy      \* the earlier single-class caller: its _endpoint and _list_key,
                \* and the request of the operation it ran last

vars == <<cache, store, secrets, nextTok, pool, nextPool, closePc, live, used,
          authLog, call, pc, net, tasks, sent, outcome, mime, legacy>>

NoCall == [layer |-> "none", kind |-> "", op |-> "", rid |-> "", ep |-> <<>>,
           details |-> FALSE, hdrs |-> NoHeaders, method |-> ""]
NoOutcome == [state |-> "none", err |-> NoExc, value |-> <<>>, resp |-> NoResp]
Raised(e, resp) == [state |-> "raised", err |-> e, value |-> <<>>, resp |-> resp]
Returned(v, resp) == [state |-> "returned", err |-> NoExc, value |-> v, resp |-> resp]
Pending == [state |-> "pending", err |-> NoExc, value |-> <<>>, resp |-> NoResp]

Task(rid, st, req, err, json) ==
    [rid |-> rid, st |-> st, req |-> req, err |-> err, json |-> json]

TasksSettled == \A i \in 1..Len(tasks) : tasks[i].st \in {"ok", "failed"}

NoClose == [waiting |-> 0, ret |-> "none"]

InitProgram ==
    /\ cache = None
    /\ store \in StoredCreds
    /\ secrets \in BOOLEAN
    /\ nextTok = 2
    /\ pool = NoPool
    /\ nextPool = 1
    /\ closePc = NoClose
    /\ live = {}
    /\ used = {}
    /\ authLog = <<>>
    /\ call = NoCall
    /\ pc = "idle"
    /\ net = NoReq
    /\ tasks = <<>>
    /\ sent = <<>>
    /\ outcome = NoOutcome
    /\ legacy = NoLegacy

Init == InitProgram /\ mime = NoMime

\* ---------------------------------------------------------------- actions
\* The records of what an operation did (authLog, call, sent, outcome) are
\* kept until the caller has looked at them: a state that holds a finished
\* synchronous step or a finished operation is followed by Observe alone,
\* which drops the records and leaves the program's own state as it is.
Final == outcome.state \in {"returned", "raised"}
Finished == pc = "idle" /\ call.layer # "none" /\ TasksSettled
Observable == authLog # <<>> \/ Final \/ Finished \/ closePc.ret # "none"

Observe ==
    /\ Observable
    /\ authLog' = <<>>
    /\ outcome' = IF Final THEN NoOutcome ELSE outcome
    /\ call' = IF Finished THEN NoCall ELSE call
    /\ sent' = IF Finished THEN <<>> ELSE sent
    /\ tasks' = IF Finished THEN <<>> ELSE tasks
    /\ closePc' = [closePc EXCEPT !.ret = "none"]
    /\ UNCHANGED <<cache, store, secrets, legacy, mime, nextTok, pool, nextPool, live, used, pc,
                   net>>

\* The authenticator's and the pool's state after a synchronous step; the
\* counters stop the run at the bounds.
ApplyState(st) ==
    /\ nextTok + st.minted <= MaxTok + 1
    /\ (st.pool.present /\ ~pool.present) => nextPool <= MaxPools
    /\ cache' = st.cache
    /\ store' = st.store
    /\ pool' = st.pool
    /\ nextTok' = nextTok + st.minted
    /\ nextPool' = IF st.pool.present /\ ~pool.present THEN nextPool + 1 ELSE nextPool
    /\ live' = IF st.pool.present /\ ~pool.present THEN live \cup {st.pool.id} ELSE live

ApplyStart(st) ==
    /\ ApplyState(st)
    /\ authLog' = st.auths

\* A caller asks the authenticator for the credential.
Credentialed(env, r) ==
    /\ nextTok + Minted(r) <= MaxTok + 1
    /\ cache' = r.cache
    /\ store' = r.store
    /\ nextTok' = nextTok + Minted(r)
    /\ authLog' = <<AuthEntry(cache, store, secrets, env, r)>>
    /\ UNCHANGED <<secrets, legacy, mime, pool, nextPool, closePc, live, used, call, pc, net, tasks,
                   sent, outcome>>

GetCredentials ==
    /\ ~Observable
    /\ \E env \in EnvsFor(cache) :
         Credentialed(env, get_credentials(cache, store, secrets, env, nextTok))

\* Time passes: the token t reaches its expiry, in every copy of it.
ExpireCred(c, t) == IF c.present /\ c.token = t THEN [c EXCEPT !.expired = TRUE] ELSE c
Expire ==
    /\ ~Observable
    /\ \E t \in 1..MaxTok :
      /\ \/ (cache.present /\ cache.token = t /\ ~cache.expired)
         \/ (store.present /\ store.token = t /\ ~store.expired)
      /\ cache' = ExpireCred(cache, t)
      /\ store' = ExpireCred(store, t)
      /\ UNCHANGED <<secrets, legacy, mime, nextTok, pool, nextPool, closePc, live, used, authLog, call, pc,
                     net, tasks, sent, outcome>>

\* The endpoints a caller of the client itself passes.
RawPaths == {THREADS_ENDPOINT \o <<"a">>}

\* An operation begins: c describes it, st is its synchronous step and e the
\* exception its caller sees if that step raised.
Begin(c, st, e) ==
    /\ ApplyStart(st)
    /\ call' = c
    /\ net' = st.req
    /\ sent' = IF st.req.present THEN <<st.req>> ELSE <<>>
    /\ used' = IF st.req.present THEN used \cup {st.req.pool} ELSE used
    /\ tasks' = <<>>
    /\ pc' = IF e.type = "none" THEN "await" ELSE "idle"
    /\ outcome' = IF e.type = "none" THEN Pending ELSE Raised(e, NoResp)
    /\ UNCHANGED <<secrets, legacy, mime, closePc>>

ClientStep(method, path, hdrs, st) ==
    Begin([NoCall EXCEPT !.layer = "client", !.method = method, !.ep = path,
                         !.hdrs = hdrs],
          st, st.err)

\* GmailHTTPClient.request(method, endpoint, headers=hdrs), to its first await.
ClientRequest ==
    /\ ~Observable
    /\ pc = "idle" /\ TasksSettled
    /\ \E method \in Methods, path \in RawPaths, hdrs \in ExtraHeaders,
          env \in EnvsFor(cache) :
         ClientStep(method, path, hdrs,
                    request(method, path, "", hdrs, pool, cache, store, secrets,
                            env, env, nextTok, nextPool))

HandlerStep(kind, op, rid, ep, details, hdrs, hr, st) ==
    Begin([layer |-> "handler", kind |-> kind, op |-> op, rid |-> rid, ep |-> ep,
           details |-> details, hdrs |-> hdrs, method |-> hr.method],
          st, wrap(st.err))

\* The exception of get_all(details=True) on a handler class leaves
\* get_all_with_details and get_all outside any try block; that of a call
\* whose arguments do not bind is raised before the method's body runs.
\* A handler that keeps the endpoint of the operation before: once the pool
\* exists, some operation ran earlier.
HandlerRunFromEarlierCall(kind, op, rid, ep, details, hdrs, env, hr) ==
    IF (details /\ ~self_get_all_is_base(kind)) \/ ~binds(kind, op)
    THEN Begin([layer |-> "handler", kind |-> kind, op |-> op, rid |-> rid,
                ep |-> ep, details |-> details, hdrs |-> hdrs, method |-> ""],
               StartResult(Exc("TypeError", 0, "", "none"), NoReq, cache, store,
                           pool, <<>>, 0),
               Exc("TypeError", 0, "", "none"))
    ELSE HandlerStep(kind, op, rid, ep, details, hdrs, hr,
                     request(hr.method,
                             IF pool.present /\ op = "get_by_id"
                             THEN MESSAGES_ENDPOINT \o <<rid>> ELSE hr.path,
                             hr.params, hdrs, pool, cache,
                             store, secrets, env, env, nextTok, nextPool))
HandlerRun(kind, op, rid, ep, details, hdrs, env, hr) ==
    IF (details /\ ~self_get_all_is_base(kind)) \/ ~binds(kind, op)
    THEN Begin([layer |-> "handler", kind |-> kind, op |-> op, rid |-> rid,
                ep |-> ep, details |-> details, hdrs |-> hdrs, method |-> ""],
               StartResult(Exc("TypeError", 0, "", "none"), NoReq, cache, store,
                           pool, <<>>, 0),
               Exc("TypeError", 0, "", "none"))
    ELSE HandlerStep(kind, op, rid, ep, details, hdrs, hr,
                     request(hr.method, hr.path, hr.params, hdrs, pool, cache,
                             store, secrets, env, env, nextTok, nextPool))

\* A resource handler's method, to its first await.  Whatever the client
\* raises, the handler raises GmailResourceError.
HandlerCall ==
    /\ ~Observable
    /\ pc = "idle" /\ TasksSettled
    /\ \E kind \in Classes, hdrs \in HandlerHeaders, env \in EnvsFor(cache) :
       \E op \in Operations(kind) \cup InheritedOperations(kind)
                   \cup ShortOperations(kind) :
       \E rid \in IF op \in IdOperations THEN Ids ELSE {""} :
       \E ep \in IF op \in InheritedOperations(kind)
                 THEN {MESSAGES_ENDPOINT, DRAFTS_ENDPOINT, THREADS_ENDPOINT}
                 ELSE {<<>>} :
       \E details \in IF op = "get_all" THEN BOOLEAN
                      ELSE {op = "base.get_all_with_details"} :
         HandlerRun(kind, op, rid, ep, details, hdrs, env,
                    handler_request(kind, op, rid, ep))

\* What the operation returns for the decoded document of its own request:
\* the client returns the document; get_all unwraps the list key; delete and
\* undelete return nothing.
ReturnValue(c, json) ==
    IF c.layer = "client" THEN <<json>>
    ELSE IF c.op = "get_all" THEN unwrap(json, ListKey(c.kind))
    ELSE IF c.op = "base.get_all_with_details" THEN unwrap(json, c.ep[1])
    ELSE IF c.op \in {"delete", "undelete", "base.undelete"} THEN <<>>
    ELSE <<json>>

\* The operation's own request is answered: e is the exception its caller
\* sees (or none), v the value.  For get_all with details, a non-empty list
\* starts one detail task per stub and the operation waits in gather().
Settle(resp, e, v, fan) ==
    /\ net' = NoReq
    /\ pc' = IF fan THEN "gather" ELSE "idle"
    /\ tasks' = IF fan
                THEN [i \in 1..Len(v) |-> Task(v[i], "created", NoReq, NoExc, NoJson)]
                ELSE <<>>
    /\ outcome' = IF e.type # "none" THEN Raised(e, resp)
                  ELSE IF fan THEN [Pending EXCEPT !.resp = resp]
                  ELSE Returned(v, resp)
    /\ UNCHANGED <<cache, store, secrets, legacy, mime, nextTok, pool, nextPool, closePc, live, used,
                   authLog, call, sent>>

Settled(resp, e, v) == Settle(resp, e, v, e.type = "none" /\ call.details /\ v # <<>>)

AnsweredRetrying(resp, h) ==
    IF h[1].type # "none" /\ Len(sent) < 2
    THEN /\ sent' = Append(sent, net)
         /\ UNCHANGED <<cache, store, secrets, legacy, mime, nextTok, pool, nextPool, closePc, live,
                        used, authLog, call, pc, net, tasks, outcome>>
    ELSE Settled(resp, IF call.layer = "handler" THEN wrap(h[1]) ELSE h[1],
                 ReturnValue(call, h[2]))
Answered(resp, h) ==
    Settled(resp, IF call.layer = "handler" THEN wrap(h[1]) ELSE h[1],
            ReturnValue(call, h[2]))

Respond ==
    /\ ~Observable
    /\ pc = "await"
    /\ \E resp \in ResponsesTo(net) : Answered(resp, handle_response(resp, net))

\* gather(): the first task to fail makes the operation raise at once; the
\* last to finish, with none failed, makes it return the results in order.
AfterTaskWaitingForAll(ts) ==
    IF pc # "gather" THEN <<pc, outcome>>
    ELSE IF \E i \in 1..Len(ts) : ts[i].st \notin {"ok", "failed"}
    THEN <<pc, outcome>>
    ELSE IF \E i \in 1..Len(ts) : ts[i].st = "failed"
    THEN <<"idle", Raised(ts[CHOOSE i \in 1..Len(ts) : ts[i].st = "failed"].err,
                          outcome.resp)>>
    ELSE <<"idle", Returned([i \in 1..Len(ts) |-> ts[i].json], outcome.resp)>>
AfterTask(ts) ==
    IF pc # "gather" THEN <<pc, outcome>>
    ELSE IF \E i \in 1..Len(ts) : ts[i].st = "failed"
    THEN <<"idle", Raised(ts[CHOOSE i \in 1..Len(ts) : ts[i].st = "failed"].err,
                          outcome.resp)>>
    ELSE IF \A i \in 1..Len(ts) : ts[i].st = "ok"
    THEN <<"idle", Returned([i \in 1..Len(ts) |-> ts[i].json], outcome.resp)>>
    ELSE <<pc, outcome>>

TaskDone(after) ==
    /\ pc' = after[1]
    /\ outcome' = after[2]

TaskStarted(i, st) ==
    /\ ApplyStart(st)
    /\ tasks' = [tasks EXCEPT ![i] =
                   IF st.err.type = "none"
                   THEN Task(tasks[i].rid, "inflight", st.req, NoExc, NoJson)
                   ELSE Task(tasks[i].rid, "failed", NoReq, wrap(st.err), NoJson)]
    /\ sent' = IF st.req.present THEN Append(sent, st.req) ELSE sent
    /\ used' = IF st.req.present THEN used \cup {st.req.pool} ELSE used
    /\ TaskDone(AfterTask(tasks'))
    /\ UNCHANGED <<secrets, legacy, mime, closePc, call, net>>

TaskRun(i, env, hr) ==
    TaskStarted(i, request(hr.method, hr.path, hr.params, call.hdrs, pool, cache,
                           store, secrets, env, env, nextTok, nextPool))

\* A detail task runs get_detail_func, the base get_by_id on the listed
\* endpoint, to its first await.  Tasks start in the order they were created.
TaskStart ==
    /\ ~Observable
    /\ \E i \in 1..Len(tasks) :
         /\ tasks[i].st = "created"
         /\ \A j \in 1..(i - 1) : tasks[j].st # "created"
         /\ \E env \in EnvsFor(cache) :
              TaskRun(i, env, base_get_by_id(call.ep, tasks[i].rid, ""))

TaskAnswered(i, h) ==
    /\ tasks' = [tasks EXCEPT ![i] =
                   IF h[1].type = "none"
                   THEN Task(tasks[i].rid, "ok", NoReq, NoExc, h[2])
                   ELSE Task(tasks[i].rid, "failed", NoReq, wrap(h[1]), NoJson)]
    /\ TaskDone(AfterTask(tasks'))
    /\ UNCHANGED <<cache, store, secrets, legacy, mime, nextTok, pool, nextPool, closePc, live, used,
                   authLog, call, net, sent>>

\* The network answers a detail request; the answers come in any order.
TaskRespond ==
    /\ ~Observable
    /\ \E i \in 1..Len(tasks) :
         /\ tasks[i].st = "inflight"
         /\ \E resp \in ResponsesTo(tasks[i].req) :
              TaskAnswered(i, handle_response(resp, tasks[i].req))

\* close(): nothing when no pool was constructed; else aclose() is awaited,
\* and then the client forgets whatever pool it holds at that moment.
\* aclose() marks the pool closed in its first statement and then suspends
\* while the connections are released; on a pool already closed it returns
\* without suspending.
aclose(p) == [p EXCEPT !.closed = TRUE]

\* self._client = None
CloseKeepingClient(p) == p
forget(p) == NoPool

\* close() finds no pool.
CloseNoop ==
    /\ ~Observable
    /\ ~pool.present
    /\ closePc' = [closePc EXCEPT !.ret = "noop"]
    /\ used' = {}
    /\ UNCHANGED <<cache, store, secrets, legacy, mime, nextTok, pool, nextPool, live, authLog,
                   call, pc, net, tasks, sent, outcome>>

\* close() finds an open pool and suspends in its aclose().
CloseStart ==
    /\ ~Observable
    /\ pool.present /\ ~pool.closed
    /\ closePc.waiting < MaxClosing
    /\ pool' = aclose(pool)
    /\ live' = live \ {pool.id}
    /\ closePc' = [closePc EXCEPT !.waiting = @ + 1]
    /\ used' = {}
    /\ UNCHANGED <<cache, store, secrets, legacy, mime, nextTok, nextPool, authLog, call, pc,
                   net, tasks, sent, outcome>>

\* close() finds a pool another close() is still releasing: aclose() returns
\* at once and the client forgets the pool.
CloseAgain ==
    /\ ~Observable
    /\ pool.present /\ pool.closed
    /\ pool' = forget(aclose(pool))
    /\ closePc' = [closePc EXCEPT !.ret = "released"]
    /\ used' = {}
    /\ UNCHANGED <<cache, store, secrets, legacy, mime, nextTok, nextPool, live, authLog, call,
                   pc, net, tasks, sent, outcome>>

\* A suspended close() resumes: the client forgets the pool it holds now.
CloseFinish ==
    /\ ~Observable
    /\ closePc.waiting > 0
    /\ pool' = forget(pool)
    /\ closePc' = [waiting |-> closePc.waiting - 1, ret |-> "released"]
    /\ UNCHANGED <<cache, store, secrets, legacy, mime, nextTok, nextPool, live, used, authLog, call,
                   pc, net, tasks, sent, outcome>>

\* ------------------------------------------- create_message, parse_message
\* A caller builds a message from a text and decodes what was built.
CreateMessage ==
    /\ mime.pc = "input"
    /\ mime' = [mime EXCEPT !.pc = "created",
                            !.raw = create_message(mime.text, mime.html)]
    /\ UNCHANGED <<cache, store, secrets, legacy, nextTok, pool, nextPool, closePc, live, used,
                   authLog, call, pc, net, tasks, sent, outcome>>

ParseMessage ==
    /\ mime.pc = "created"
    /\ mime' = [mime EXCEPT !.pc = "parsed", !.msg = parse_message(mime.raw)]
    /\ UNCHANGED <<cache, store, secrets, legacy, nextTok, pool, nextPool, closePc, live, used,
                   authLog, call, pc, net, tasks, sent, outcome>>

\* ------------------------------------------ the earlier single-class caller
\* Any public operation of GmailAPICaller, run to its end.
LegacyCall ==
    /\ \E op \in DraftOps \cup MessageOps \cup GenericOps :
       \E rid \in IF op \in NoIdOps THEN {""} ELSE Ids :
         legacy' = legacy_call(legacy, op, rid)
    /\ UNCHANGED <<cache, store, secrets, mime, nextTok, pool, nextPool, closePc, live,
                   used, authLog, call, pc, net, tasks, sent, outcome>>

Next ==
    \/ GetCredentials
    \/ Expire
    \/ ClientRequest
    \/ HandlerCall
    \/ Respond
    \/ TaskStart
    \/ TaskRespond
    \/ CloseNoop
    \/ CloseStart
    \/ CloseAgain
    \/ CloseFinish
    \/ CreateMessage
    \/ ParseMessage
    \/ LegacyCall
    \/ Observe

Spec == Init /\ [][Next]_vars

\* The authenticator alone: callers ask for the credential while time passes.
NextAuth ==
    \/ GetCredentials
    \/ Expire
    \/ Observe

SpecAuth == Init /\ [][NextAuth]_vars

\* The client alone: requests made of it directly, and close().
NextClient ==
    \/ Expire
    \/ ClientRequest
    \/ Respond
    \/ CloseNoop
    \/ CloseStart
    \/ CloseAgain
    \/ CloseFinish
    \/ Observe

SpecClient == Init /\ [][NextClient]_vars

\* The resource handlers over the client.
NextHandlers ==
    \/ Expire
    \/ HandlerCall
    \/ Respond
    \/ TaskStart
    \/ TaskRespond
    \/ Observe

\* The handlers start with the secrets file in place and either no token file
\* or a valid one; expiry, a failing refresh and a failing consent flow then
\* produce every failure of the authenticator.
InitHandlers == Init /\ secrets /\ store \in {None, Cred(1, TRUE, FALSE)}

SpecHandlers == InitHandlers /\ [][NextHandlers]_vars

\* The message helpers alone, on every text up to MaxLen characters, with
\* and without an HTML alternative.
NextMime ==
    \/ CreateMessage
    \/ ParseMessage

InitMime ==
    /\ InitProgram /\ secrets /\ store = None
    /\ mime \in {[NoMime EXCEPT !.pc = "input", !.text = t, !.html = h] :
                   t \in Texts, h \in HtmlInputs}

SpecMime == InitMime /\ [][NextMime]_vars

\* The earlier single-class caller alone, under every sequence of its
\* public operations.
InitLegacy == InitProgram /\ secrets /\ store = None /\ mime = NoMime

SpecLegacy == InitLegacy /\ [][LegacyCall]_vars

\* ----------------------------------------------------------------- claims
Entries == {authLog[i] : i \in 1..Len(authLog)}

\* expired and carrying a refresh token: what refresh() can renew
refreshable(c) == c.present /\ c.expired /\ c.refresh_token

\* C1: every credential get_credentials() returns is valid when it is
\* returned, whatever the cache and the token file held and whichever way it
\* was obtained.
C1_ReturnedCredentialValid ==
    \A e \in Entries : e.res.err = "none" => valid(e.res.ret)

C1_Witness ==
    \E e \in Entries :
      /\ e.cache.present /\ e.cache.expired
      /\ e.res.err = "none" /\ e.res.refreshes = 1 /\ valid(e.res.ret)

\* C2: with a valid cached credential get_credentials() returns that very
\* credential and neither reads nor writes the token file, refreshes, nor
\* runs the consent flow.
C2_ValidCacheUntouched ==
    \A e \in Entries :
      valid(e.cache) =>
        /\ e.res.err = "none"
        /\ e.res.ret = e.cache
        /\ e.res.cache = e.cache
        /\ e.res.store = e.store
        /\ e.res.reads = 0
        /\ e.res.saved = <<>>
        /\ e.res.refreshes = 0
        /\ e.res.flows = 0

C2_Witness ==
    \E e \in Entries : valid(e.cache) /\ e.store.present /\ e.store # e.cache

\* C3: with no valid cached credential and an expired credential with a
\* refresh token in the token file, one get_credentials() call refreshes
\* exactly once and runs no consent flow; when the refresh returns, the call
\* writes the refreshed credential to the token file (once, and the file
\* holds it if the write succeeds), caches it and returns it.
C3_ExpiredStoredIsRefreshedOnce ==
    \A e \in Entries :
      (~valid(e.cache) /\ refreshable(e.store)) =>
        /\ e.res.refreshes = 1
        /\ e.res.flows = 0
        /\ ~e.refresh_raised =>
             /\ e.res.err = "none"
             /\ valid(e.res.ret)
             /\ e.res.ret.token # e.store.token
             /\ e.res.ret.refresh_token
             /\ e.res.saved = <<e.res.ret>>
             /\ (~e.res.save_failed => e.res.store = e.res.ret)
             /\ e.res.cache = e.res.ret

C3_Witness ==
    \E e \in Entries :
      /\ ~valid(e.cache) /\ refreshable(e.store)
      /\ ~e.refresh_raised /\ ~e.res.save_failed
      /\ e.res.store = e.res.ret /\ e.res.cache = e.res.ret

\* C4: without the secrets file, and with neither the cache nor the token
\* file holding a valid or refreshable credential, get_credentials() raises
\* GmailCredentialsError and never starts the consent flow.
C4_NoSecretsIsCredentialsError ==
    \A e \in Entries :
      (/\ ~e.secrets
       /\ ~valid(e.cache) /\ ~refreshable(e.cache)
       /\ ~valid(e.store) /\ ~refreshable(e.store)) =>
        /\ e.res.err = "GmailCredentialsError"
        /\ e.res.flows = 0

C4_Witness ==
    \E e \in Entries :
      /\ ~e.secrets /\ ~e.cache.present
      /\ e.store.present /\ ~valid(e.store) /\ ~refreshable(e.store)
      /\ e.res.err = "GmailCredentialsError"

\* C5: when the refresh throws, get_credentials() raises GmailTokenError,
\* leaves the cache as it was, writes nothing to the token file and does not
\* fall back to the consent flow.
C5_RefreshFailureIsTokenError ==
    \A e \in Entries :
      e.refresh_raised =>
        /\ e.res.err = "GmailTokenError"
        /\ e.res.cache = e.cache
        /\ e.res.store = e.store
        /\ e.res.saved = <<>>
        /\ e.res.flows = 0

C5_Witness ==
    \E e \in Entries :
      e.refresh_raised /\ e.cache.present /\ e.res.err = "GmailTokenError"

\* C6: a failed write of the token file, after a refresh or a consent flow
\* that succeeded, is not fatal: get_credentials() caches and returns the new
\* credential and raises nothing.
C6_SaveFailureNotFatal ==
    \A e \in Entries :
      e.res.save_failed =>
        /\ e.res.err = "none"
        /\ valid(e.res.ret)
        /\ e.res.cache = e.res.ret
        /\ e.res.refreshes + e.res.flows = 1
        /\ e.res.store = e.store

C6_Witness ==
    \E e \in Entries :
      e.res.save_failed /\ e.res.refreshes = 1 /\ e.res.cache = e.res.ret

\* C7: request() with a method other than GET, POST, PUT, DELETE raises
\* ValueError and makes no network call in that invocation (none to the API,
\* no refresh, no consent flow), whatever the cache, the token file and the
\* pool hold.
C7_UnsupportedMethodIsLocalValueError ==
    (call.layer = "client" /\ call.method \notin SupportedMethods) =>
      /\ outcome.state = "raised"
      /\ outcome.err.type = "ValueError"
      /\ sent = <<>>
      /\ \A e \in Entries : e.res.refreshes = 0 /\ e.res.flows = 0

\* a response arrived (as opposed to a transport failure or nothing yet)
Received(resp) == ~resp.transport /\ resp.status # 0

\* C8: a response with a non-2xx status makes request() raise GmailAPIError
\* carrying that status code and the body text unchanged, and return no JSON.
C8_NonSuccessIsAPIError ==
    (call.layer = "client" /\ Received(outcome.resp)
       /\ ~is_success(outcome.resp.status)) =>
      /\ outcome.state = "raised"
      /\ outcome.err.type = "GmailAPIError"
      /\ outcome.err.status_code = outcome.resp.status
      /\ outcome.err.response = outcome.resp.text
      /\ outcome.value = <<>>

C8_Witness ==
    /\ call.layer = "client"
    /\ Received(outcome.resp)
    /\ outcome.resp.status = 302
    /\ outcome.resp.text = "text"
    /\ outcome.err.type = "GmailAPIError"

\* C9: a transport failure (no response) makes request() raise
\* GmailRequestError, never GmailAPIError; GmailAPIError is raised only for a
\* response that arrived with a non-2xx status.
C9_TransportFailureIsRequestError ==
    call.layer = "client" =>
      /\ outcome.resp.transport =>
           outcome.state = "raised" /\ outcome.err.type = "GmailRequestError"
      /\ outcome.err.type = "GmailAPIError" =>
           Received(outcome.resp) /\ ~is_success(outcome.resp.status)

C9_Witness ==
    /\ call.layer = "client"
    /\ outcome.resp.transport
    /\ outcome.err.type = "GmailRequestError"

\* C10: whatever fails in a handler operation (get_all with or without
\* details, get_by_id, create, update, delete, undelete, send), the caller
\* sees GmailResourceError: never GmailAPIError, GmailRequestError,
\* GmailCredentialsError or GmailTokenError under its own type.
C10_HandlerFailuresAreResourceError ==
    (call.layer = "handler" /\ outcome.state = "raised") =>
      /\ outcome.err.type = "GmailResourceError"
      /\ outcome.err.cause # "none"

\* The stubs of the list response a details call received.
Listed == unwrap([key |-> outcome.resp.key, items |-> outcome.resp.items],
                 IF call.kind = "base" THEN call.ep[1] ELSE ListKey(call.kind))

\* The endpoint a details call lists.
ListedEndpoint == IF call.kind = "base" THEN call.ep ELSE Endpoint(call.kind)

\* A details call that ended otherwise than by the failure of a request has
\* sent the list request and one detail request per stub, and its result i is
\* the detail fetched for the id of stub i.
DetailsAligned ==
    /\ outcome.state = "returned"
    /\ Len(sent) = Len(Listed) + 1
    /\ Len(outcome.value) = Len(Listed)
    /\ sent[1].method = "GET" /\ sent[1].path = ListedEndpoint
    /\ \A i \in 1..Len(Listed) :
         /\ sent[i + 1].method = "GET"
         /\ sent[i + 1].path = ListedEndpoint \o <<Listed[i]>>
         /\ outcome.value[i].of = ListedEndpoint \o <<Listed[i]>>

\* C11: get_all(details=True) over a list of N stubs issues the list request
\* and exactly N detail requests and returns N results, result i being the
\* detail of stub i, whatever the order the detail requests complete in (N = 0
\* and repeated ids included); it ends otherwise only when a request failed.
C11_DetailsOnePerStubInOrder ==
    (call.layer = "handler" /\ call.details /\ Final
       /\ ~(outcome.state = "raised" /\ outcome.err.type = "GmailResourceError"))
      => DetailsAligned

FailedTasks == {i \in 1..Len(tasks) : tasks[i].st = "failed"}

C13_MissingListKeyIsEmpty ==
    (/\ call.layer = "handler" /\ call.kind \in Kinds /\ call.op = "get_all"
     /\ Final
     /\ ~(outcome.state = "raised" /\ outcome.err.type = "GmailResourceError")
     /\ outcome.resp.key # ListKey(call.kind)) =>
      /\ outcome.state = "returned"
      /\ outcome.value = <<>>
      /\ Len(sent) = 1

\* A step in which close() returns having found no pool.
ClosedNothing == closePc.ret = "none" /\ closePc'.ret = "noop"

\* A step in which close() returns having found a pool.
ClosedPool == closePc.ret = "none" /\ closePc'.ret = "released"

\* A step in which close() suspends in aclose().
CloseSuspends == closePc'.waiting > closePc.waiting

\* A step in which request() is called on a client that holds no pool.
RequestWithoutPool == call.layer = "none" /\ call'.layer = "client" /\ ~pool.present

\* C14: close() on a client that holds no pool changes nothing; close() on a
\* client that holds one releases it and leaves the client holding none; and
\* a request made of a client that holds none constructs a new pool and is
\* dispatched on it (it fails only for its credentials or its method), after
\* every sequence of requests and close() calls.
C14_CloseStep ==
    /\ ClosedNothing =>
         UNCHANGED <<cache, store, secrets, legacy, mime, nextTok, pool, nextPool, live, authLog,
                     call, pc, net, tasks, sent, outcome>>
    /\ CloseSuspends => pool.id \notin live' /\ pool'.closed
    /\ ClosedPool => ~pool'.present
    /\ RequestWithoutPool =>
         /\ outcome'.state \in {"pending", "raised"}
         /\ outcome'.state = "raised" =>
              outcome'.err.type \in {"GmailCredentialsError", "GmailTokenError",
                                     "ValueError"}
         /\ outcome'.state = "pending" =>
              /\ pool'.present /\ ~pool'.closed
              /\ pool'.id \notin live /\ pool'.id \in live'
              /\ net'.present /\ net'.pool = pool'.id

C14_CloseReleasesAndAllowsReconstruction == [][C14_CloseStep]_vars

\* a request in flight on a second pool, constructed after a close()
C14_Witness ==
    /\ call.layer = "client"
    /\ outcome.state = "pending"
    /\ pool.present /\ ~pool.closed /\ pool.id = 2
    /\ net.present /\ net.pool = 2
    /\ live = {2}

\* C15: the pool is constructed lazily and reused: none exists until a request
\* has constructed the first, at most one pool is live at any time, and all
\* the requests issued between two consecutive close() calls (those of a
\* fan-out included) are handed to the same pool.
C15_OneLazyPool ==
    /\ nextPool = 1 => (~pool.present /\ live = {})
    /\ Cardinality(live) <= 1
    /\ Cardinality(used) <= 1

\* The state right after request() handed its request to the pool: the
\* get_credentials() calls it made are still on record.
JustSent == call.layer = "client" /\ authLog # <<>> /\ net.present

\* The auth headers of the credential the latest get_credentials() returned.
FreshAuth ==
    ("Authorization" :> HVal("Bearer", authLog[Len(authLog)].res.ret.token))
      @@ ("Content-Type" :> HVal("application/json", 0))

\* C16: the headers of every request are the freshly obtained auth headers
\* overridden key by key by the caller's extra headers: a key in both has the
\* caller's value, a key in one only is sent as it is.
C16_HeadersMerged ==
    JustSent =>
      /\ DOMAIN net.headers = DOMAIN FreshAuth \cup DOMAIN call.hdrs
      /\ \A k \in DOMAIN call.hdrs : net.headers[k] = call.hdrs[k]
      /\ \A k \in DOMAIN FreshAuth \ DOMAIN call.hdrs : net.headers[k] = FreshAuth[k]
      /\ authLog[Len(authLog)].res.ret = cache

C16_Witness ==
    /\ JustSent
    /\ "Authorization" \in DOMAIN call.hdrs
    /\ net.headers["Authorization"] = HVal("Bearer", 0)
    /\ net.headers["Content-Type"] = HVal("application/json", 0)
    /\ cache.token = 3

\* The handler's own delete(id) or undelete(id) was called.
TrashCall == call.layer = "handler" /\ call.op \in {"delete", "undelete"}

\* The call failed on the way to the pool: authentication or the pool itself.
FailedBeforeSending ==
    /\ outcome.state = "raised"
    /\ outcome.err.type = "GmailResourceError"
    /\ sent = <<>>

\* C17: for every kind and id, delete(id) issues exactly one DELETE request
\* to <endpoint>/<id>/trash and undelete(id) exactly one POST request to
\* <endpoint>/<id>/untrash, relative to the base URL, the endpoint being the
\* kind's own.
C17_TrashAndUntrashRequests ==
    TrashCall =>
      \/ FailedBeforeSending
      \/ /\ Len(sent) = 1
         /\ sent[1].base = BASE_URL
         /\ sent[1].method = (IF call.op = "delete" THEN "DELETE" ELSE "POST")
         /\ sent[1].path = Endpoint(call.kind)
              \o <<call.rid, IF call.op = "delete" THEN TRASH_SUFFIX ELSE UNTRASH_SUFFIX>>

\* C17 for the methods the handler classes define themselves.
C17_OwnMethods ==
    (TrashCall /\ call.op \in Operations(call.kind)) => C17_TrashAndUntrashRequests

C17_OwnWitness ==
    /\ TrashCall /\ call.kind = "threads" /\ call.op = "undelete"
    /\ outcome.state = "returned" /\ Len(sent) = 1

\* The operations the documentation gives each handler, in the handler's own
\* call shape.
DocumentedOperations(kind) ==
    CASE kind = "messages" -> {"create", "update", "delete", "send"}
      [] kind = "drafts" -> {"create", "update", "delete", "undelete"}
      [] kind = "threads" -> {"delete", "undelete"}
      [] OTHER -> {}

\* The call was made in the handler's own shape: create(data),
\* update(id, data), delete(id), undelete(id), send(message).
ShapedCall ==
    /\ call.layer = "handler"
    /\ call.op \in {"create", "update", "delete", "undelete", "send"}

Rejected == outcome.state = "raised" /\ outcome.err.type = "TypeError"

\* C18: the operations each handler supports in that shape are exactly:
\* Messages create, update, delete, send; Drafts create, update, delete,
\* undelete; Threads delete, undelete.  Drafts.undelete(id) POSTs to
\* drafts/<id>/untrash, and no call on the Threads handler issues a POST to
\* threads or a PUT to threads/<id>.
C18_SupportedOperations ==
    /\ ShapedCall => (Rejected <=> call.op \notin DocumentedOperations(call.kind))
    /\ (ShapedCall /\ call.kind = "drafts" /\ call.op = "undelete") =>
         \/ FailedBeforeSending
         \/ /\ Len(sent) = 1
            /\ sent[1].method = "POST"
            /\ sent[1].path = DRAFTS_ENDPOINT \o <<call.rid, UNTRASH_SUFFIX>>
    /\ (call.layer = "handler" /\ call.kind = "threads") =>
         \A i \in 1..Len(sent) :
            /\ ~(sent[i].method = "POST" /\ sent[i].path = THREADS_ENDPOINT)
            /\ ~(sent[i].method = "PUT" /\ Len(sent[i].path) = 2
                   /\ sent[i].path[1] = THREADS_ENDPOINT[1])

\* A handler operation other than get_all with details.
SingleRequestCall == call.layer = "handler" /\ ~call.details

\* This step raises the operation's error to its caller.
Raises == outcome.state # "raised" /\ outcome'.state = "raised" /\ call'.layer = "handler"

\* C19: there is no retry.  A handler operation other than get_all with
\* details issues at most one request per invocation, and the step in which
\* its failure is raised to the caller issues no request and leaves none in
\* flight.
C19_NoRetry ==
    /\ [](SingleRequestCall => Len(sent) <= 1)
    /\ [][(Raises /\ ~call'.details) => (Len(sent') <= Len(sent) /\ net' = NoReq
                                          /\ pc' = "idle")]_vars

C19_Witness ==
    /\ SingleRequestCall
    /\ outcome.state = "raised"
    /\ outcome.resp.status = 404
    /\ Len(sent) = 1
    /\ net = NoReq

\* The plain-text part of a parsed message: its first text/plain part.
PlainPart(msg) ==
    msg.parts[CHOOSE i \in 1..Len(msg.parts) :
                /\ msg.parts[i].subtype = "plain"
                /\ \A j \in 1..(i - 1) : msg.parts[j].subtype # "plain"]

\* C20: for every message_text, parse_message applied to the raw field that
\* create_message produced yields a message whose plain-text part equals
\* message_text.
C20_RoundTrip ==
    mime.pc = "parsed" =>
      /\ mime.msg.err = "none"
      /\ \E i \in 1..Len(mime.msg.parts) : mime.msg.parts[i].subtype = "plain"
      /\ get_content(PlainPart(mime.msg)) = mime.text

\* C20 for the texts without a carriage return, and for those outside ASCII.
C20_WithoutCarriageReturn ==
    (\A i \in 1..Len(mime.text) : mime.text[i] # "CR") => C20_RoundTrip
C20_OutsideASCII == ~is_ascii(mime.text) => C20_RoundTrip

\* The parts of the document create_message built.
BuiltParts == parse_message(mime.raw).parts

\* C21: without message_html the document has exactly one part, the plain
\* text; with message_html supplied, the empty string included, it has
\* exactly two, plain first and html second.
C21_PartsFollowHtml ==
    mime.pc = "created" =>
      IF mime.html.given
      THEN /\ Len(BuiltParts) = 2
           /\ BuiltParts[1].subtype = "plain"
           /\ BuiltParts[2].subtype = "html"
      ELSE /\ Len(BuiltParts) = 1
           /\ BuiltParts[1].subtype = "plain"

\* C21 for every message_html but the empty string.
C21_NonEmptyHtml == (mime.html.given => mime.html.text # <<>>) => C21_PartsFollowHtml

\* A Messages, Drafts or Threads operation has issued its request.
Issued == call.layer = "handler" /\ call.kind \in Kinds /\ sent # <<>>

\* The method and the path an operation's request has by the operation and
\* its arguments alone: the handler's kind, the id and, for the methods
\* inherited with the endpoint as an argument, that endpoint.
MethodBy(op) ==
    CASE op \in {"get_all", "get_by_id"} -> "GET"
      [] op \in {"send", "create", "base.create", "undelete", "base.undelete"} -> "POST"
      [] op \in {"update", "base.update"} -> "PUT"
      [] op = "delete" -> "DELETE"
PathBy(c) ==
    CASE c.op = "get_all" -> Endpoint(c.kind)
      [] c.op = "send" -> SEND_ENDPOINT
      [] c.op = "create" -> Endpoint(c.kind)
      [] c.op \in {"get_by_id", "update"} -> Endpoint(c.kind) \o <<c.rid>>
      [] c.op = "delete" -> Endpoint(c.kind) \o <<c.rid, TRASH_SUFFIX>>
      [] c.op = "undelete" -> Endpoint(c.kind) \o <<c.rid, UNTRASH_SUFFIX>>
      [] c.op = "base.create" -> c.ep
      [] c.op = "base.update" -> c.ep \o <<c.rid>>
      [] c.op = "base.undelete" -> c.ep \o <<c.rid, UNTRASH_SUFFIX>>

\* C22: the method and the path of the request a Messages, Drafts or Threads
\* operation issues depend on the operation and its arguments alone, whatever
\* operations ran before it.
C22_RequestByOperationAlone ==
    Issued =>
      /\ Len(sent) = 1
      /\ sent[1].method = MethodBy(call.op)
      /\ sent[1].path = PathBy(call)
      /\ sent[1].base = BASE_URL

\* An operation that found the pool an earlier operation built, with the
\* credential renewed since.
C22_Witness ==
    /\ Issued /\ call.kind = "threads" /\ call.op = "get_by_id"
    /\ sent[1].pool = pool.id
    /\ pool.hdr_tok # cache.token

\* C23: when the cached credential has expired but carries a refresh token,
\* get_credentials() runs no consent flow and does not raise
\* GmailCredentialsError, whatever the token file and the secrets file hold;
\* unless the refresh itself throws, it returns a valid credential.
C23_ExpiredCacheIsRefreshed ==
    \A e \in Entries :
      refreshable(e.cache) =>
        /\ e.res.flows = 0
        /\ e.res.err # "GmailCredentialsError"
        /\ ~e.refresh_raised => (e.res.err = "none" /\ valid(e.res.ret))

\* C23 with the token file still holding the credential the cache holds.
C23_StoredAsCached ==
    \A e \in Entries :
      (refreshable(e.cache) /\ e.store = e.cache) =>
        /\ e.res.flows = 0
        /\ e.res.err # "GmailCredentialsError"
        /\ ~e.refresh_raised => (e.res.err = "none" /\ valid(e.res.ret))

C23_StoredAsCachedReached ==
    \E e \in Entries : refreshable(e.cache) /\ e.store = e.cache /\ e.res.refreshes = 1

\* The refreshes and consent flows the get_credentials() calls of a log
\* started.
RECURSIVE Triggered(_)
Triggered(log) ==
    IF log = <<>> THEN 0
    ELSE Head(log).res.refreshes + Head(log).res.flows + Triggered(Tail(log))

\* The bearer token a request carries.
Bearer(req) == req.headers["Authorization"].n

\* C24: get_credentials() runs without a suspension point.  The synchronous
\* step of a request, the first one included (which asks for the auth
\* headers twice), starts at most one refresh or consent flow, and a step
\* that finds the cached credential valid starts none: of the requests of a
\* details fan-out only the first to run can refresh, as long as the
\* credential it obtained stays valid.
C24_Step ==
    /\ authLog' # <<>> => Triggered(authLog') <= 1
    /\ (authLog' # <<>> /\ cache.present /\ valid(cache)) => Triggered(authLog') = 0

C24_AtMostOneRefresh == [][C24_Step]_vars

\* A fan-out whose first detail request refreshed the expired credential and
\* whose second one reused it.
C24_Witness ==
    /\ pc = "gather" /\ Len(tasks) = 2
    /\ sent[1].headers # NoHeaders
    /\ \A i \in 1..2 : tasks[i].req.present
    /\ Bearer(tasks[1].req) = Bearer(tasks[2].req)
    /\ Bearer(tasks[1].req) # Bearer(sent[1])
    /\ cache.token = Bearer(tasks[1].req) /\ valid(cache)

\* The first request of a client: two get_credentials() calls, one refresh.
C24_FirstRequest ==
    /\ Len(authLog) = 2
    /\ authLog[1].res.refreshes = 1 /\ authLog[2].res.refreshes = 0
    /\ net.present

\* request() has just run to its first await.
JustRequested == call.layer = "client" /\ authLog # <<>>

\* The pool refused the request handed to it: its aclose() had begun.
RefusedByPool == outcome.state = "raised" /\ outcome.err.type = "RuntimeError"

C25_NothingLeavesOnClosingPool == JustRequested => (net.present => net.pool \in live)

\* C26: every request sent with no Authorization header of the caller's
\* carries the bearer token of the credential get_credentials() returned
\* during that request: once the credential was renewed, the token in the
\* pool's default headers is not the one sent.
C26_FreshTokenSent ==
    (JustRequested /\ net.present /\ "Authorization" \notin DOMAIN call.hdrs) =>
      /\ Bearer(net) = authLog[Len(authLog)].res.ret.token
      /\ Bearer(net) = cache.token

\* A request on a pool built before the credential was renewed.
C26_Witness ==
    /\ JustRequested /\ net.present /\ "Authorization" \notin DOMAIN call.hdrs
    /\ net.pool = pool.id
    /\ pool.hdr_tok # Bearer(net)

\* C27: in the earlier single-class caller, after any sequence of its public
\* operations each typed operation targets its own resource: get_messages
\* lists messages and unwraps the key messages, get_message(id) requests
\* messages/<id>, delete_message(id) requests messages/<id>/trash, get_drafts
\* lists drafts and unwraps the key drafts.
C27_TypedOperationsKeepTheirResource ==
    /\ legacy.op = "get_messages" =>
         (legacy.err = "none" /\ legacy.path = <<"messages">> /\ legacy.list_key = "messages")
    /\ legacy.op = "get_message" =>
         (legacy.err = "none" /\ legacy.path = <<"messages", legacy.rid>>)
    /\ legacy.op = "delete_message" =>
         (legacy.err = "none" /\ legacy.path = <<"messages", legacy.rid, "trash">>)
    /\ legacy.op = "get_drafts" =>
         (legacy.err = "none" /\ legacy.path = <<"drafts">> /\ legacy.list_key = "drafts")

====
